---- MODULE Spec2Model ----
(***************************************************************************)
(* The wallet data hook of the dashboard (frontend/src/hooks/              *)
(* useWalletData.js) as a state machine.  One action is one JavaScript     *)
(* task: an event handler, a timer callback, or the continuation that runs *)
(* when a network promise settles, together with the render and the        *)
(* effects it triggers.  Network requests are the only suspension points.  *)
(* The gateway (frontend/src/api/client.js) and the formatters             *)
(* (frontend/src/utils/format.js) are modelled on their own, as calls made  *)
(* one at a time (LibSpec).                                                 *)
(***************************************************************************)
EXTENDS Integers, Sequences, FiniteSets, TLC

\* ------------------------------------------------------------------ bounds
\* Data cycles (calls of loadData with an address) started in one behaviour.
MaxCycles == 2
\* fetchWallets() requests outstanding at one time.
MaxListReqs == 1

\* ------------------------------------------------------------------ values
Addresses == {"0xA", "0xB"}
NoWallet == ""
Versions == {1}

\* Wallet lists the backend may answer with (response.wallets).
WalletLists == {<<>>, <<"0xA">>, <<"0xA", "0xB">>}

\* JavaScript null as a summary, and as a response body (status 204).
NullSummary == [addr |-> NoWallet, ver |-> 0]
NullFillsResponse == [kind |-> "null", addr |-> NoWallet, ver |-> 0]

\* What GET /wallets/{a} may resolve to: a summary of a.
SummaryResponses(a) == {[addr |-> a, ver |-> v] : v \in Versions}

\* What GET /wallets/{a}/fills may resolve to: a body with items, a body
\* without the items field, or null.
FillsResponses(a) ==
  {[kind |-> "items", addr |-> a, ver |-> v] : v \in Versions}
    \cup {[kind |-> "absent", addr |-> a, ver |-> 0], NullFillsResponse}

\* err.message of a rejected request; the empty message exercises the fallbacks.
ErrSummary == "summary request failed"
ErrFills == "fills request failed"
ErrWallets == "wallets request failed"
TypeErrorMessage == "Cannot read properties of null"
WalletsFallback == "Failed to load wallets"
DataFallback == "Failed to load wallet data"

\* ------------------------------------------------------------------ state
VARIABLES
  wallets,         \* useState([])     the wallet list
  selectedWallet,  \* useState('')     the selection
  summary,         \* useState(null)
  fills,           \* useState([])
  loading,         \* useState(false)
  error,           \* useState('')
  timers,          \* addresses polled by a live setInterval handle
  countdown,       \* whether time has passed since the interval was armed
  mounted,         \* the component is mounted
  listReqs,        \* fetchWallets() promises not yet settled
  cycles,          \* loadData calls whose requests have not all settled
  nextId,          \* id of the next data cycle
  summaryBy,       \* history: id of the cycle that wrote summary (0: none)
  fillsBy,         \* history: id of the cycle that wrote fills (0: none)
  last,            \* history: the step taken last
  io               \* the call of a gateway operation or a formatter under way

\* The state of the hook.
hook == <<wallets, selectedWallet, summary, fills, loading, error, timers,
          countdown, mounted, listReqs, cycles, nextId, summaryBy, fillsBy, last>>

vars == <<hook, io>>

snapshot == <<summary, fills, loading, error>>

\* A step: its kind, the cycle and address it is about (for a list result,
\* the selection it was applied to), the values Promise.all fulfilled with,
\* whether it left a request of that cycle on the wire, and whether the
\* values were those already shown.
Event(kind, id, addr, s, f, open) ==
  [kind |-> kind, id |-> id, addr |-> addr, sum |-> s, fil |-> f, open |-> open,
   again |-> FALSE]

Plain(kind) == Event(kind, 0, NoWallet, NullSummary, NullFillsResponse, FALSE)

About(kind, id, addr) == Event(kind, id, addr, NullSummary, NullFillsResponse, TRUE)

\* ------------------------------------------------------------------ helpers
Range(s) == {s[i] : i \in 1..Len(s)}

\* list.includes(current)
Includes(list, current) == \E i \in 1..Len(list) : list[i] = current

\* list[0] || ''
FirstOrEmpty(list) == IF Len(list) > 0 THEN list[1] ELSE NoWallet

\* fillsResponse.items || []
FillsItems(f) ==
  IF f.kind = "items" THEN <<[addr |-> f.addr, ver |-> f.ver]>> ELSE <<>>

\* err.message || fallback
MessageOr(msg, fallback) == IF msg # "" THEN msg ELSE fallback

\* The functional updater of setSelectedWallet in loadWallets.
ReconcileKeepAlways(current, list) ==
  IF current # NoWallet THEN current ELSE FirstOrEmpty(list)

ReconcileNoFallback(current, list) ==
  IF current # NoWallet /\ Includes(list, current) THEN current ELSE NoWallet

Reconcile(current, list) ==
  IF current # NoWallet /\ Includes(list, current)
  THEN current
  ELSE FirstOrEmpty(list)

\* The <option> values the selector renders for a wallet list.
SelectorOptions(ws) == Range(ws) \cup (IF Len(ws) = 0 THEN {NoWallet} ELSE {})

\* A request of a cycle is pending, or fulfilled and waiting in Promise.all
\* for the other one.  Nothing reads the body of a response before
\* Promise.all fulfils, so the model draws both bodies in that step.
Pending == "pending"
Fulfilled == "ok"

\* A call of loadData(a); was is history, the data shown when it was made.
NewCycle(id, a) ==
  [id |-> id, addr |-> a, was |-> <<summary, fills>>,
   sum |-> Pending, fil |-> Pending]

\* ------------------------------------------------------------------ loadData
\* loadData(address) up to its await.
loadData(address) ==
  IF address = NoWallet
  THEN /\ summary' = NullSummary
       /\ fills' = <<>>
       /\ summaryBy' = 0
       /\ fillsBy' = 0
       /\ UNCHANGED <<loading, error, cycles, nextId>>
  ELSE /\ nextId <= MaxCycles
       /\ loading' = TRUE
       /\ error' = ""
       /\ cycles' = cycles \cup {NewCycle(nextId, address)}
       /\ nextId' = nextId + 1
       /\ UNCHANGED <<summary, fills, summaryBy, fillsBy>>

\* Promise.all fulfils with the values an earlier cycle has put on display.
ShownAlready(s, f) ==
  /\ summaryBy # 0 /\ fillsBy # 0
  /\ f.kind # "null"
  /\ summary = s /\ fills = FillsItems(f)

\* loadData after its await, Promise.all fulfilled with [s, f].
DataResolvedAppends(c, s, f) ==
  /\ summary' = s
  /\ summaryBy' = c.id
  /\ IF f.kind = "null"
     THEN /\ error' = TypeErrorMessage
          /\ UNCHANGED <<fills, fillsBy>>
     ELSE /\ fills' = fills \o FillsItems(f)
          /\ fillsBy' = c.id
          /\ UNCHANGED error
  /\ loading' = FALSE

DataResolvedNewestOnly(c, s, f) ==
  /\ IF c.id < summaryBy
     THEN UNCHANGED <<summary, summaryBy, fills, fillsBy, error>>
     ELSE /\ summary' = s
          /\ summaryBy' = c.id
          /\ IF f.kind = "null"
             THEN /\ error' = TypeErrorMessage
                  /\ UNCHANGED <<fills, fillsBy>>
             ELSE /\ fills' = FillsItems(f)
                  /\ fillsBy' = c.id
                  /\ UNCHANGED error
  /\ loading' = FALSE

DataResolved(c, s, f) ==
  /\ summary' = s
  /\ summaryBy' = c.id
  /\ IF f.kind = "null"
     THEN /\ error' = TypeErrorMessage
          /\ UNCHANGED <<fills, fillsBy>>
     ELSE /\ fills' = FillsItems(f)
          /\ fillsBy' = c.id
          /\ UNCHANGED error
  /\ loading' = FALSE

\* loadData after its await, Promise.all rejected with an error of message msg.
DataRejectedBlanks(msg) ==
  /\ error' = MessageOr(msg, DataFallback)
  /\ loading' = FALSE
  /\ summary' = NullSummary
  /\ fills' = <<>>
  /\ UNCHANGED <<summaryBy, fillsBy>>

DataRejected(msg) ==
  /\ error' = MessageOr(msg, DataFallback)
  /\ loading' = FALSE
  /\ UNCHANGED <<summary, fills, summaryBy, fillsBy>>

\* ------------------------------------------------------------------ the polling effect
\* clearInterval(timer) in the cleanup of the effect that polled old.
ClearNothing(ts, old) == ts

ClearInterval(ts, old) == ts \ {old}

\* The countdown of the interval, REFRESH_INTERVAL long: Armed when it was
\* just registered or has just fired, so that a whole interval is left;
\* Running once some of the interval has gone by.
Armed == "armed"
Running == "running"

\* The interval registered for a still fires.
TimerLiveUntilError(a) == a \in timers /\ error = ""

TimerLive(a) == a \in timers

\* useEffect(..., [loadData, selectedWallet]) after a render in which the
\* selection is new: cleanup of the previous run, then the body.
PollingEffectEveryRender(new) ==
  /\ selectedWallet' = new
  /\ countdown' = Armed
  /\ IF new = NoWallet
     THEN /\ timers' = ClearInterval(timers, selectedWallet)
          /\ UNCHANGED <<summary, fills, summaryBy, fillsBy,
                         loading, error, cycles, nextId>>
     ELSE /\ timers' = ClearInterval(timers, selectedWallet) \cup {new}
          /\ loadData(new)

PollingEffect(new) ==
  /\ selectedWallet' = new
  /\ IF new = selectedWallet
     THEN UNCHANGED <<timers, countdown, summary, fills, summaryBy, fillsBy,
                      loading, error, cycles, nextId>>
     ELSE IF new = NoWallet
     THEN /\ timers' = ClearInterval(timers, selectedWallet)
          /\ countdown' = Armed
          /\ UNCHANGED <<summary, fills, summaryBy, fillsBy,
                         loading, error, cycles, nextId>>
     ELSE /\ timers' = ClearInterval(timers, selectedWallet) \cup {new}
          /\ countdown' = Armed
          /\ loadData(new)

\* ------------------------------------------------------------------ actions
\* reloadWallets(): loadWallets up to its await.
ReloadWallets ==
  /\ UNCHANGED io
  /\ mounted
  /\ listReqs < MaxListReqs
  /\ listReqs' = listReqs + 1
  /\ last' = Plain("reloadWallets")
  /\ UNCHANGED <<wallets, selectedWallet, summary, fills, loading, error,
                 timers, countdown, mounted, cycles, nextId, summaryBy, fillsBy>>

\* loadWallets after its await, fetchWallets() fulfilled with a body whose
\* wallets field is list (an absent field gives the empty list).
WalletsResolved(list) ==
  /\ UNCHANGED io
  /\ mounted
  /\ listReqs > 0
  /\ listReqs' = listReqs - 1
  /\ wallets' = list
  /\ PollingEffect(Reconcile(selectedWallet, list))
  /\ last' = About("walletsResolved", 0, selectedWallet)
  /\ UNCHANGED mounted

\* loadWallets after its await, fetchWallets() rejected with message msg.
WalletsRejectedEmptiesList(msg) ==
  /\ UNCHANGED io
  /\ mounted
  /\ listReqs > 0
  /\ listReqs' = listReqs - 1
  /\ error' = MessageOr(msg, WalletsFallback)
  /\ wallets' = <<>>
  /\ last' = Plain("walletsRejected")
  /\ UNCHANGED <<selectedWallet, summary, fills, loading, timers,
                 countdown, mounted, cycles, nextId, summaryBy, fillsBy>>

WalletsRejected(msg) ==
  /\ UNCHANGED io
  /\ mounted
  /\ listReqs > 0
  /\ listReqs' = listReqs - 1
  /\ error' = MessageOr(msg, WalletsFallback)
  /\ last' = Plain("walletsRejected")
  /\ UNCHANGED <<wallets, selectedWallet, summary, fills, loading, timers,
                 countdown, mounted, cycles, nextId, summaryBy, fillsBy>>

\* onChange of the selector: setSelectedWallet(event.target.value).
SelectWallet(w) ==
  /\ UNCHANGED io
  /\ mounted
  /\ w \in SelectorOptions(wallets)
  /\ w # selectedWallet
  /\ PollingEffect(w)
  /\ last' = About("select", IF w = NoWallet THEN 0 ELSE nextId, w)
  /\ UNCHANGED <<wallets, mounted, listReqs>>

\* refresh(): loadData(selectedWallet).
Refresh ==
  /\ UNCHANGED io
  /\ mounted
  /\ loadData(selectedWallet)
  /\ last' = About("refresh", IF selectedWallet = NoWallet THEN 0 ELSE nextId,
                   selectedWallet)
  /\ UNCHANGED <<wallets, selectedWallet, timers, countdown, mounted, listReqs>>

\* The setInterval callback: loadData(a) for the address the effect closed over.
TimerTick(a) ==
  /\ UNCHANGED io
  /\ TimerLive(a)
  /\ countdown = Running
  /\ countdown' = Armed
  /\ loadData(a)
  /\ last' = About("tick", nextId, a)
  /\ UNCHANGED <<wallets, selectedWallet, timers, mounted, listReqs>>

\* Time goes by while an interval is registered.
TimePasses ==
  /\ UNCHANGED io
  /\ timers # {}
  /\ countdown = Armed
  /\ countdown' = Running
  /\ last' = Plain("timePasses")
  /\ UNCHANGED <<wallets, selectedWallet, summary, fills, loading, error, timers,
                 mounted, listReqs, cycles, nextId, summaryBy, fillsBy>>

\* fetchWalletSummary(c.addr) fulfils with s; f is the body the fills
\* request fulfilled with, if it did before.
SummaryResolved(c, s, f) ==
  /\ UNCHANGED io
  /\ mounted
  /\ c \in cycles /\ c.sum = Pending
  /\ s \in SummaryResponses(c.addr)
  /\ IF c.fil = Fulfilled
     THEN /\ f \in FillsResponses(c.addr)
          /\ DataResolved(c, s, f)
          /\ cycles' = cycles \ {c}
          /\ last' = [Event("dataResolved", c.id, c.addr, s, f, FALSE)
                         EXCEPT !.again = ShownAlready(s, f)]
     ELSE /\ f = NullFillsResponse
          /\ cycles' = (cycles \ {c}) \cup {[c EXCEPT !.sum = Fulfilled]}
          /\ last' = About("summaryResolved", c.id, c.addr)
          /\ UNCHANGED <<summary, fills, loading, error, summaryBy, fillsBy>>
  /\ UNCHANGED <<wallets, selectedWallet, timers, countdown, mounted, listReqs, nextId>>

\* fetchWalletFills(c.addr, 50) fulfils with f; s is the body the summary
\* request fulfilled with, if it did before.
FillsResolved(c, s, f) ==
  /\ UNCHANGED io
  /\ mounted
  /\ c \in cycles /\ c.fil = Pending
  /\ f \in FillsResponses(c.addr)
  /\ IF c.sum = Fulfilled
     THEN /\ s \in SummaryResponses(c.addr)
          /\ DataResolved(c, s, f)
          /\ cycles' = cycles \ {c}
          /\ last' = [Event("dataResolved", c.id, c.addr, s, f, FALSE)
                         EXCEPT !.again = ShownAlready(s, f)]
     ELSE /\ s = NullSummary
          /\ cycles' = (cycles \ {c}) \cup {[c EXCEPT !.fil = Fulfilled]}
          /\ last' = About("fillsResolved", c.id, c.addr)
          /\ UNCHANGED <<summary, fills, loading, error, summaryBy, fillsBy>>
  /\ UNCHANGED <<wallets, selectedWallet, timers, countdown, mounted, listReqs, nextId>>

\* fetchWalletSummary(c.addr) rejects: Promise.all rejects at once, and
\* whatever the fills request does later has no continuation left to run.
SummaryRejected(c, msg) ==
  /\ UNCHANGED io
  /\ mounted
  /\ c \in cycles /\ c.sum = Pending
  /\ DataRejected(msg)
  /\ cycles' = cycles \ {c}
  /\ last' = Event("dataRejected", c.id, c.addr, NullSummary, NullFillsResponse,
                   c.fil = Pending)
  /\ UNCHANGED <<wallets, selectedWallet, timers, countdown, mounted, listReqs, nextId>>

\* fetchWalletFills(c.addr, 50) rejects: Promise.all rejects at once, and
\* whatever the summary request does later has no continuation left to run.
FillsRejected(c, msg) ==
  /\ UNCHANGED io
  /\ mounted
  /\ c \in cycles /\ c.fil = Pending
  /\ DataRejected(msg)
  /\ cycles' = cycles \ {c}
  /\ last' = Event("dataRejected", c.id, c.addr, NullSummary, NullFillsResponse,
                   c.sum = Pending)
  /\ UNCHANGED <<wallets, selectedWallet, timers, countdown, mounted, listReqs, nextId>>

\* The component unmounts: the cleanup of the polling effect runs and the
\* hook's state is discarded, so a promise that settles later updates nothing.
Unmount ==
  /\ UNCHANGED io
  /\ mounted
  /\ mounted' = FALSE
  /\ timers' = ClearInterval(timers, selectedWallet)
  /\ countdown' = Armed
  /\ wallets' = <<>>
  /\ selectedWallet' = NoWallet
  /\ summary' = NullSummary
  /\ fills' = <<>>
  /\ loading' = FALSE
  /\ error' = ""
  /\ listReqs' = 0
  /\ cycles' = {}
  /\ summaryBy' = 0
  /\ fillsBy' = 0
  /\ last' = Plain("unmount")
  /\ UNCHANGED nextId

\* ------------------------------------------------------------------ the gateway
\* The functions of api/wallet.js, and the path each one requests.
ApiOps == {"fetchWallets", "fetchWalletSummary", "fetchWalletPositions",
           "fetchWalletFills", "fetchWalletMetrics"}

ApiPath(op, address) ==
  CASE op = "fetchWallets" -> "/wallets"
    [] op = "fetchWalletSummary" -> "/wallets/" \o address
    [] op = "fetchWalletPositions" -> "/wallets/" \o address \o "/positions"
    [] op = "fetchWalletFills" -> "/wallets/" \o address \o "/fills?limit=50"
    [] op = "fetchWalletMetrics" -> "/wallets/" \o address \o "/metrics"

\* A decoded JSON value, by its type and its keys; JavaScript null.
Json(type, keys) == [type |-> type, keys |-> keys]
JsonNull == Json("null", {})

\* The text of a response body.
Bodies == {"", "{\"wallets\":[]}", "[]", "upstream timeout"}

\* response.json() on a body text: the value, or a SyntaxError.
JsonParse(text) ==
  CASE text = "{\"wallets\":[]}" -> [ok |-> TRUE, val |-> Json("object", {"wallets"})]
    [] text = "[]" -> [ok |-> TRUE, val |-> Json("array", {})]
    [] OTHER -> [ok |-> FALSE, val |-> JsonNull]

\* What fetch may resolve with: status, statusText, the body text, and
\* whether reading the body fails.
Statuses == {200, 204, 404, 500}
Responses ==
  [status : Statuses, statusText : {"", "Server Error"}, body : Bodies,
   bodyFails : BOOLEAN]
NoResponse == [status |-> 0, statusText |-> "", body |-> "", bodyFails |-> FALSE]

\* response.ok
Ok(status) == status >= 200 /\ status <= 299

TransportMessage == "Failed to fetch"
SyntaxErrorMessage == "Unexpected token"
GenericMessage(status) == "Request failed with status " \o ToString(status)

\* errorText || `Request failed with status ${response.status}`
ErrorMessageBare(errorText, status) == errorText

ErrorMessage(errorText, status) ==
  IF errorText # "" THEN errorText ELSE GenericMessage(status)

\* How a call ended: a formatter returned str or threw, a gateway promise
\* resolved with val or rejected with an error of message str.
Outcome(kind, str, val) == [kind |-> kind, str |-> str, val |-> val]
NoOutcome == Outcome("none", "", JsonNull)
Resolve(val) == Outcome("resolve", "", val)
Reject(msg) == Outcome("reject", msg, JsonNull)
Return(str) == Outcome("return", str, JsonNull)
Throw(msg) == Outcome("throw", msg, JsonNull)

\* ------------------------------------------------------------------ the formatters
\* A JavaScript number: finite ones in millionths, the finest fraction any
\* caller asks for.
FractionDigits == 6
Num(k, u) == [k |-> k, u |-> u]
NaN == Num("nan", 0)
PosInfinity == Num("inf", 0)
NegInfinity == Num("-inf", 0)
Finite(u) == Num("finite", u)

\* 0, 1234.5, -0.001, 0.005 and 0.123456.
FiniteNumbers == {Finite(u) : u \in {0, 1234500000, -1000, 5000, 123456}}
Numbers == FiniteNumbers \cup {NaN, PosInfinity, NegInfinity}
Texts == {"", "12.5", "abc", "Infinity"}

\* A JavaScript value handed to a formatter.
Js(t, num, str) == [t |-> t, num |-> num, str |-> str]
Null == Js("null", NaN, "")
Undefined == Js("undefined", NaN, "")
JsNumber(n) == Js("number", n, "")
JsString(str) == Js("string", NaN, str)
Values ==
  {Null, Undefined} \cup {JsNumber(n) : n \in Numbers}
    \cup {JsString(str) : str \in Texts}

\* Number(text)
StringToNumber(str) ==
  CASE str = "" -> Finite(0)
    [] str = "12.5" -> Finite(12500000)
    [] str = "Infinity" -> PosInfinity
    [] OTHER -> NaN

\* Number(value)
ToNumber(value) ==
  CASE value.t = "null" -> Finite(0)
    [] value.t = "undefined" -> NaN
    [] value.t = "number" -> value.num
    [] value.t = "string" -> StringToNumber(value.str)

\* value === null || value === undefined || Number.isNaN(Number(value))
NotANumber(value) ==
  value.t = "null" \/ value.t = "undefined" \/ ToNumber(value).k = "nan"

\* The options of Intl.NumberFormat; Unset for a field left out.
Unset == -1
Options(min, max) == [min |-> min, max |-> max]
NoOptions == Options(Unset, Unset)
OptionSets ==
  {NoOptions, Options(Unset, 6), Options(0, 0), Options(2, 2), Options(Unset, 0)}

\* { minimumFractionDigits: 2, maximumFractionDigits: 2, ...options }
Spread(defaults, options) ==
  [min |-> IF options.min = Unset THEN defaults.min ELSE options.min,
   max |-> IF options.max = Unset THEN defaults.max ELSE options.max]

RECURSIVE Pow10(_)
Pow10(d) == IF d = 0 THEN 1 ELSE 10 * Pow10(d - 1)

\* n in w decimal digits.
RECURSIVE Digits(_, _)
Digits(n, w) == IF w = 0 THEN "" ELSE Digits(n \div 10, w - 1) \o ToString(n % 10)

\* The integer part, grouped by thousands.
RECURSIVE Grouped(_)
Grouped(n) ==
  IF n < 1000 THEN ToString(n)
  ELSE Grouped(n \div 10^3) \o "," \o Digits(n % 10^3, 3)

\* The fraction f of d digits, without the trailing zeros beyond min digits.
RECURSIVE Fraction(_, _, _)
Fraction(f, d, min) ==
  IF d > min /\ f % 10 = 0 THEN Fraction(f \div 10, d - 1, min)
  ELSE IF d = 0 THEN "" ELSE "." \o Digits(f, d)

\* format of a finite number of u millionths: rounded half away from zero
\* to max fraction digits.
FormatFinite(u, min, max) ==
  LET a == IF u < 0 THEN -u ELSE u
      unit == Pow10(FractionDigits - max)
      q == (a + unit \div 2) \div unit
  IN (IF u < 0 THEN "-" ELSE "")
       \o Grouped(q \div Pow10(max)) \o Fraction(q % Pow10(max), max, min)

InfinitySign == "U+221E"
RangeErrorMessage == "maximumFractionDigits value is out of range"

\* new Intl.NumberFormat('en-US', options).format(n)
NumberFormat(options, n) ==
  IF options.min > options.max THEN Throw(RangeErrorMessage)
  ELSE Return(CASE n.k = "nan" -> "NaN"
                [] n.k = "inf" -> InfinitySign
                [] n.k = "-inf" -> "-" \o InfinitySign
                [] n.k = "finite" -> FormatFinite(n.u, options.min, options.max))

formatCurrency(value) ==
  IF NotANumber(value) THEN Return("N/A")
  ELSE Return("$" \o NumberFormat(Options(2, 2), ToNumber(value)).str)

formatNumber(value, options) ==
  IF NotANumber(value) THEN Return("N/A")
  ELSE NumberFormat(Spread(Options(2, 2), options), ToNumber(value))

formatPrice(value) ==
  IF NotANumber(value) THEN Return("N/A")
  ELSE NumberFormat(Options(2, 4), ToNumber(value))

formatPercentage(value) ==
  IF NotANumber(value) THEN Return("N/A")
  ELSE Return(formatNumber(value, Options(2, 2)).str \o "%")

\* !ms
Falsy(ms) ==
  \/ ms.t = "null" \/ ms.t = "undefined"
  \/ ms.t = "number" /\ (ms.num = NaN \/ ms.num = Finite(0))
  \/ ms.t = "string" /\ ms.str = ""

\* new Date(ms).toLocaleString() in en-US and UTC, for a time in January
\* 1970; a time value that is no finite number gives an invalid date.
ToLocaleString(ms) ==
  IF ms.t # "number" \/ ms.num.k # "finite" THEN "Invalid Date"
  ELSE LET t == IF ms.num.u < 0 THEN -((-ms.num.u) \div Pow10(FractionDigits))
                 ELSE ms.num.u \div Pow10(FractionDigits)
           secs == t \div 1000
           hour == (secs \div 3600) % 24
       IN "1/" \o ToString(secs \div 86400 + 1) \o "/1970, "
            \o ToString(IF hour % 12 = 0 THEN 12 ELSE hour % 12)
            \o ":" \o Digits((secs \div 60) % 60, 2)
            \o ":" \o Digits(secs % 60, 2)
            \o (IF hour < 12 THEN " AM" ELSE " PM")

\* Text other than these is left out: how Date parses it depends on the engine.
Timestamps == Values \ {JsString("12.5")}

formatTimestamp(ms) ==
  IF Falsy(ms) THEN Return("N/A") ELSE Return(ToLocaleString(ms))

\* ------------------------------------------------------------------ calls
Formatters == {"formatCurrency", "formatNumber", "formatPrice",
               "formatPercentage", "formatTimestamp"}

\* No call has been made.
NoCall ==
  [fn |-> "none", path |-> "", pc |-> "idle", sent |-> 0, decoded |-> FALSE,
   resp |-> NoResponse, arg |-> Undefined, opts |-> NoOptions, out |-> NoOutcome]

\* No call is under way.
Settled == io.pc \in {"idle", "done"}

\* A formatter was called with arg and ended with out.
Formatted(fn, arg, opts, out) ==
  [NoCall EXCEPT !.fn = fn, !.pc = "done", !.arg = arg, !.opts = opts, !.out = out]

\* apiClient.get(path): request up to its first await, the call of fetch.
ApiGet(op, address) ==
  /\ Settled
  /\ io' = [NoCall EXCEPT !.fn = op, !.path = ApiPath(op, address),
                          !.pc = "fetch", !.sent = @ + 1]
  /\ UNCHANGED hook

\* fetch resolves with response r.
FetchResolves(r) ==
  /\ io.pc = "fetch"
  /\ io' = [io EXCEPT !.resp = r,
                      !.pc = IF ~Ok(r.status) THEN "text"
                             ELSE IF r.status = 204 THEN "done" ELSE "json",
                      !.out = IF Ok(r.status) /\ r.status = 204
                              THEN Resolve(JsonNull) ELSE NoOutcome]
  /\ UNCHANGED hook

\* fetch rejects: no response arrived.
FetchRejects ==
  /\ io.pc = "fetch"
  /\ io' = [io EXCEPT !.pc = "done", !.out = Reject(TransportMessage)]
  /\ UNCHANGED hook

\* response.text() settles; a rejection is replaced by response.statusText.
TextSettles ==
  /\ io.pc = "text"
  /\ LET errorText == IF io.resp.bodyFails THEN io.resp.statusText
                      ELSE io.resp.body
     IN io' = [io EXCEPT !.pc = "done",
                         !.out = Reject(ErrorMessage(errorText, io.resp.status))]
  /\ UNCHANGED hook

\* response.json() settles.
JsonSettles ==
  /\ io.pc = "json"
  /\ io' = [io EXCEPT !.pc = "done", !.decoded = TRUE,
                      !.out = IF io.resp.bodyFails \/ ~JsonParse(io.resp.body).ok
                              THEN Reject(SyntaxErrorMessage)
                              ELSE Resolve(JsonParse(io.resp.body).val)]
  /\ UNCHANGED hook

CallFormatCurrency(value) ==
  /\ Settled
  /\ io' = Formatted("formatCurrency", value, NoOptions, formatCurrency(value))
  /\ UNCHANGED hook

CallFormatNumber(value, options) ==
  /\ Settled
  /\ io' = Formatted("formatNumber", value, options, formatNumber(value, options))
  /\ UNCHANGED hook

CallFormatPrice(value) ==
  /\ Settled
  /\ io' = Formatted("formatPrice", value, NoOptions, formatPrice(value))
  /\ UNCHANGED hook

CallFormatPercentage(value) ==
  /\ Settled
  /\ io' = Formatted("formatPercentage", value, NoOptions, formatPercentage(value))
  /\ UNCHANGED hook

CallFormatTimestamp(ms) ==
  /\ Settled
  /\ io' = Formatted("formatTimestamp", ms, NoOptions, formatTimestamp(ms))
  /\ UNCHANGED hook

\* ------------------------------------------------------------------ specification
\* The state after the first render and its effects: loadWallets() has been
\* called, and the polling effect returned early on the empty selection.
Init ==
  /\ wallets = <<>>
  /\ selectedWallet = NoWallet
  /\ summary = NullSummary
  /\ fills = <<>>
  /\ loading = FALSE
  /\ error = ""
  /\ timers = {}
  /\ countdown = Armed
  /\ mounted = TRUE
  /\ listReqs = 1
  /\ cycles = {}
  /\ nextId = 1
  /\ summaryBy = 0
  /\ fillsBy = 0
  /\ last = Plain("mount")
  /\ io = NoCall

Next ==
  \/ ReloadWallets
  \/ \E list \in WalletLists : WalletsResolved(list)
  \/ \E msg \in {ErrWallets, ""} : WalletsRejected(msg)
  \/ \E w \in Addresses \cup {NoWallet} : SelectWallet(w)
  \/ Refresh
  \/ \E a \in Addresses : TimerTick(a)
  \/ TimePasses
  \/ \E c \in cycles : \E s \in SummaryResponses(c.addr) :
       \E f \in FillsResponses(c.addr) : SummaryResolved(c, s, f)
  \/ \E c \in cycles : \E s \in SummaryResponses(c.addr) \cup {NullSummary} :
       \E f \in FillsResponses(c.addr) : FillsResolved(c, s, f)
  \/ \E c \in cycles : \E msg \in {ErrSummary, ""} : SummaryRejected(c, msg)
  \/ \E c \in cycles : \E msg \in {ErrFills, ""} : FillsRejected(c, msg)
  \/ Unmount

Spec == Init /\ [][Next]_vars

\* Time goes by, and the browser fires a registered interval whenever its
\* countdown has run out.
FairSpec ==
  Spec /\ WF_vars(TimePasses) /\ \A a \in Addresses : WF_vars(TimerTick(a))

\* Calls of the gateway operations and of the formatters, one at a time.
LibNext ==
  \/ \E op \in ApiOps : \E address \in Addresses : ApiGet(op, address)
  \/ \E r \in Responses : FetchResolves(r)
  \/ FetchRejects
  \/ TextSettles
  \/ JsonSettles
  \/ \E value \in Values : CallFormatCurrency(value)
  \/ \E value \in Values : \E options \in OptionSets : CallFormatNumber(value, options)
  \/ \E value \in Values : CallFormatPrice(value)
  \/ \E value \in Values : CallFormatPercentage(value)
  \/ \E ms \in Timestamps : CallFormatTimestamp(ms)

LibSpec == Init /\ [][LibNext]_vars

\* ------------------------------------------------------------------ properties
\* The steps in which a request of a data cycle settles.
SettleKinds == {"summaryResolved", "fillsResolved", "dataResolved", "dataRejected"}

\* The cycle a settle step is about, as it was before the step.
CycleOf(id) == CHOOSE c \in cycles : c.id = id

\* C1: when a request of a cycle issued for a wallet that is no longer the
\* selection settles, with success or with failure, none of summary, fills,
\* loading and error changes.
C1_StaleSettleChangesNothing ==
  [][(last'.kind \in SettleKinds /\ last'.addr # selectedWallet)
       => UNCHANGED snapshot]_vars

\* C2: loading is true only while a cycle issued for the current selection
\* has a request outstanding; never under an empty selection.
C2_LoadingHasCurrentFetch ==
  loading => \E c \in cycles : c.addr = selectedWallet

\* C3: the selection is empty or a member of the wallet list.
C3_SelectionInWalletSet ==
  selectedWallet = NoWallet \/ selectedWallet \in Range(wallets)

\* C3 witness: a list refresh that no longer has the wallet chosen through
\* the selector has been applied.
C3_Witness ==
  /\ last.kind = "walletsResolved"
  /\ last.addr = "0xB"
  /\ wallets = <<>>
  /\ selectedWallet = NoWallet

\* C4: a successful wallet-list fetch leaves the selection it finds when it
\* is applied if that one is non-empty and in the list, and otherwise selects
\* the first entry of the list, or nothing when the list is empty.
C4_Reconciliation ==
  [][last'.kind = "walletsResolved" =>
       selectedWallet' =
         IF selectedWallet # NoWallet /\ selectedWallet \in Range(wallets')
         THEN selectedWallet
         ELSE IF wallets' = <<>> THEN NoWallet ELSE Head(wallets')]_vars

\* C4 witness: a list result was applied to a selection the user had made,
\* which is in the list but not its first entry, and kept it.
C4_Witness ==
  /\ last.kind = "walletsResolved"
  /\ last.addr = "0xB"
  /\ wallets = <<"0xA", "0xB">>
  /\ selectedWallet = "0xB"

\* C5: summary and fills were written by the same cycle, or both are in
\* their initial or cleared state.
C5_SnapshotFromOneCycle == summaryBy = fillsBy

\* C6: when a cycle for the current selection settles with both requests
\* fulfilled (each with a response body), summary is the summary response,
\* fills is the items of the fills response (empty when absent), loading is
\* false and error is empty.
C6_SuccessReplacesSnapshot ==
  [][(/\ last'.kind = "dataResolved"
      /\ last'.addr = selectedWallet
      /\ last'.fil.kind # "null") =>
       /\ summary' = last'.sum
       /\ fills' = FillsItems(last'.fil)
       /\ loading' = FALSE
       /\ error' = ""]_vars

\* C7 as stated: when a cycle for the current selection settles with a
\* failed request, error is non-empty, loading is false, and summary and
\* fills are what they were when the cycle started.
C7_FailureRestoresStartData ==
  [][(last'.kind = "dataRejected" /\ last'.addr = selectedWallet) =>
       /\ error' # ""
       /\ loading' = FALSE
       /\ <<summary', fills'>> = CycleOf(last'.id).was]_vars

\* C7 amended: when a cycle for the current selection settles with a failed
\* request, error is a non-empty message of a data failure, loading is false,
\* and summary and fills are what they were just before the settle.
C7_FailureKeepsData ==
  [][(last'.kind = "dataRejected" /\ last'.addr = selectedWallet) =>
       /\ error' \in {ErrSummary, ErrFills, DataFallback}
       /\ loading' = FALSE
       /\ summary' = summary
       /\ fills' = fills]_vars

\* C7 witness: a cycle for the selection failed while data was on display.
C7_Witness ==
  /\ last.kind = "dataRejected"
  /\ last.addr = selectedWallet
  /\ summary # NullSummary
  /\ fills # <<>>
  /\ error # ""

\* C8: in the step in which the selection becomes empty, summary becomes
\* null, fills empty, loading false and error empty.
C8_EmptySelectionResets ==
  [][(selectedWallet # NoWallet /\ selectedWallet' = NoWallet /\ mounted') =>
       /\ summary' = NullSummary
       /\ fills' = <<>>
       /\ loading' = FALSE
       /\ error' = ""]_vars

\* C9: after a cycle for the selected wallet w has failed, the timer starts
\* a further cycle for w, unless the selection leaves w or the component
\* unmounts first (or the model's budget of cycles is spent).
C9_FailureDoesNotStopPolling ==
  \A w \in Addresses :
    (last.kind = "dataRejected" /\ last.addr = w /\ selectedWallet = w /\ mounted)
      ~> \/ last.kind = "tick" /\ last.addr = w
         \/ selectedWallet # w
         \/ ~mounted
         \/ nextId > MaxCycles

\* C9 witness: the first cycle ended without writing data, so it failed, and
\* the timer has started the second one.
C9_Witness ==
  /\ last.kind = "tick"
  /\ last.id = 2
  /\ summaryBy = 0
  /\ \A c \in cycles : c.id = 2

\* The only live timer polls the current selection of a mounted component.
OneTimerForSelection ==
  timers = IF mounted /\ selectedWallet # NoWallet THEN {selectedWallet} ELSE {}

\* C10: at most one poll timer exists and it targets the current selection;
\* none is left after the selection is cleared or the component unmounts, and
\* every cycle that starts is for the selection of a mounted component.
C10_TimerFollowsSelection ==
  /\ []OneTimerForSelection
  /\ [][\A c \in cycles' : c.id >= nextId => mounted /\ c.addr = selectedWallet']_vars

\* C10 witness: the selection moved from 0xA, whose cycle is still
\* outstanding, to 0xB, and the timer polls 0xB.
C10_Witness ==
  /\ last.kind = "select"
  /\ selectedWallet = "0xB"
  /\ timers = {"0xB"}
  /\ \E c \in cycles : c.addr = "0xA"

\* C11: a wallet-list result that leaves the selection at the same address
\* starts no data cycle and leaves the poll timer and its countdown alone.
C11_SameSelectionNoRestart ==
  [][(last'.kind = "walletsResolved" /\ selectedWallet' = selectedWallet)
       => UNCHANGED <<cycles, nextId, timers, countdown, snapshot>>]_vars

\* C11 witness: a list result was applied that kept the selected wallet
\* while its cycle was outstanding and its countdown was running.
C11_Witness ==
  /\ last.kind = "walletsResolved"
  /\ last.addr = selectedWallet
  /\ selectedWallet # NoWallet
  /\ countdown = Running
  /\ cycles # {}

\* C12: a manual refresh with a wallet selected starts a cycle for it at
\* once and restarts the countdown of the poll timer, so that a whole
\* interval lies between the refresh and the next tick.
C12_RefreshRestartsCountdown ==
  [][(last'.kind = "refresh" /\ selectedWallet # NoWallet) =>
       /\ \E c \in cycles' \ cycles : c.addr = selectedWallet
       /\ countdown' = Armed]_vars

\* C18: the timer starts a cycle for a wallet only when no earlier cycle for
\* that wallet is outstanding.
C18_TickOnlyAfterSettle ==
  [][last'.kind = "tick" => \A c \in cycles : c.addr # last'.addr]_vars

\* C13: a successful cycle puts exactly the items of its own fills response
\* on display, and one that fulfils with the values already shown, with no
\* error standing, leaves the snapshot of the earlier success: the same
\* summary and fills, loading false, no error.
C13_PollingIdempotent ==
  [][(last'.kind = "dataResolved" /\ last'.fil.kind # "null") =>
       /\ fills' = FillsItems(last'.fil)
       /\ (last'.again /\ error = "") =>
            snapshot' = <<summary, fills, FALSE, "">>]_vars

\* C13 witness: the second cycle fulfilled with the fill the first one had
\* put on display, and one fill is shown.
C13_Witness ==
  /\ last.kind = "dataResolved"
  /\ last.again
  /\ last.id = 2
  /\ last.fil.kind = "items"
  /\ Len(fills) = 1
  /\ error = ""

\* C16: a cycle reports its outcome (data or error, loading cleared) only
\* when neither of its two requests is still on the wire.
C16_OutcomeAfterBothSettled ==
  last.kind \in {"dataResolved", "dataRejected"} => ~last.open

\* C17: while loading is true, the selection stays the same and a cycle for
\* it still has a request outstanding, loading stays true.
C17_LoadingUntilSettled ==
  [][(loading /\ selectedWallet' = selectedWallet
        /\ \E c \in cycles' : c.addr = selectedWallet') => loading']_vars

C20_ListFailureOnlySetsError ==
  [][last'.kind = "walletsRejected" =>
       /\ error' \in {ErrWallets, WalletsFallback}
       /\ error' # ""
       /\ UNCHANGED <<wallets, selectedWallet, summary, fills, loading,
                      timers, countdown, cycles, nextId>>]_vars

\* C20 witness: the list fetch failed while a wallet was selected and polled,
\* its data shown and a cycle for it outstanding.
C20_Witness ==
  /\ last.kind = "walletsRejected"
  /\ selectedWallet # NoWallet
  /\ wallets # <<>>
  /\ summaryBy # 0
  /\ loading
  /\ cycles # {}
  /\ timers = {selectedWallet}
  /\ error # ""

\* C14: a gateway read operation sends one network request, whatever the
\* outcome.  A non-success status rejects, without decoding, with the body
\* text when that is readable and non-empty, and otherwise with a non-empty
\* message made from the status: the generic one with the status code, or
\* the status text when the body cannot be read.  Status 204 resolves with
\* null without decoding; any other success with a well-formed body
\* resolves with the decoded body.
C14_OneRequestClassified ==
  io.fn \in ApiOps =>
    /\ io.sent = 1
    /\ io.pc = "done" =>
         LET r == io.resp IN
         /\ r = NoResponse => io.out.kind = "reject"
         /\ (r # NoResponse /\ ~Ok(r.status)) =>
              /\ io.out.kind = "reject"
              /\ ~io.decoded
              /\ io.out.str # ""
              /\ (~r.bodyFails /\ r.body # "") => io.out.str = r.body
              /\ (~r.bodyFails /\ r.body = "") =>
                   io.out.str = GenericMessage(r.status)
              /\ r.bodyFails =>
                   io.out.str \in {r.statusText, GenericMessage(r.status)}
         /\ r.status = 204 => io.out = Resolve(JsonNull) /\ ~io.decoded
         /\ (Ok(r.status) /\ r.status # 204 /\ ~r.bodyFails
               /\ JsonParse(r.body).ok) =>
              /\ io.decoded
              /\ io.out = Resolve(JsonParse(r.body).val)

\* C14 witness: a status 500 with an empty body was rejected with the
\* generic message.
C14_Witness ==
  /\ io.fn = "fetchWalletFills"
  /\ io.pc = "done"
  /\ io.resp.status = 500
  /\ ~io.resp.bodyFails /\ io.resp.body = ""
  /\ io.out = Reject("Request failed with status 500")

\* Text that does not denote a number.
NonNumericTexts == {"abc"}

\* C15: the four number formatters never throw, return "N/A" for an input
\* that is absent or no finite number (NaN, an infinity, non-numeric text)
\* and another string for a finite number; formatTimestamp returns "N/A"
\* for zero and for an absent input.
C15_FormattersDegrade ==
  /\ io.fn \in Formatters \ {"formatTimestamp"} =>
       /\ io.out.kind = "return"
       /\ (io.arg \in {Null, Undefined}
             \/ (io.arg.t = "number" /\ io.arg.num.k # "finite")
             \/ (io.arg.t = "string" /\ io.arg.str \in NonNumericTexts))
            => io.out.str = "N/A"
       /\ (io.arg.t = "number" /\ io.arg.num.k = "finite") => io.out.str # "N/A"
  /\ io.fn = "formatTimestamp" =>
       (io.arg \in {Null, Undefined, JsNumber(Finite(0))} => io.out = Return("N/A"))
====
